---- MODULE Spec2Model ----
(***************************************************************************)
(* A model of the news-verification backend:                               *)
(*   - run_verification, the agentic loop of services/orchestrator.py,     *)
(*     with the merger, the reranker, the evidence evaluator and the       *)
(*     verdict former it calls (specification Spec);                       *)
(*   - _decide_verdict as a pure function of its three arguments           *)
(*     (specification SpecDecide);                                         *)
(*   - the knowledge-base refresh job of jobs/refresh_kb.py running next   *)
(*     to readers of the vector store (specification SpecRefresh);         *)
(*   - POST /verify of main.py around run_verification, with the review    *)
(*     store it writes (specification SpecVerify);                         *)
(*   - plan_queries of services/search_planner.py on bounded claims        *)
(*     (specification SpecPlan);                                           *)
(*   - the credibility softening of form_verdict on longer evidence lists  *)
(*     (specification SpecForm);                                           *)
(*   - the result count vector_store.query asks the index for              *)
(*     (specification SpecQuery);                                          *)
(*   - POST /review/{claim_id} served by concurrent threads                *)
(*     (specification SpecReview);                                         *)
(*   - the top_k of the agentic loop for any configured RAG_TOP_K          *)
(*     (specification SpecTopK);                                           *)
(*   - the rerank step for a RERANK_TOP_K the merged list can exceed       *)
(*     (specification SpecRerank);                                         *)
(*   - _chunk_text of jobs/refresh_kb.py on bounded texts                  *)
(*     (specification SpecChunk);                                          *)
(*   - sequences of POST /verify and POST /review requests against the     *)
(*     review store (specification SpecPending).                           *)
(***************************************************************************)
EXTENDS Integers, Sequences, FiniteSets, TLC

VARIABLES
    \* ---- configuration read at import time (backend/config.py)
    MIN_SOURCES_FOR_VERDICT,  \* config.py:56
    CREDIBLE_DOMAINS,         \* config.py:67-76
    \* ---- run_verification (services/orchestrator.py)
    pc,                \* position in run_verification
    claim,             \* the claim argument
    iteration,         \* loop variable of the agentic loop
    evidence,          \* local `evidence`
    sufficient,        \* local `sufficient`
    conflict,          \* local `conflict`
    top_k,             \* local `top_k`
    use_current_only,  \* local `use_current_only`
    cross_encoder,     \* reranker._cross_encoder is loaded
    result,            \* the dict run_verification returned
    \* ---- history of the run (not read by the program)
    fv_evidence,       \* the evidence argument of the form_verdict call
    decided,           \* what _decide_verdict returned inside form_verdict
    rerank_path,       \* return path of rerank in the current iteration
    rerank_input,      \* the list the rerank step of this iteration was given
    threw_inner,       \* a call guarded by an inner try/except raised
    threw_outer,       \* a step guarded only by the outer try threw
    rerank_output,     \* the list the rerank step of this iteration returned
    form_calls,        \* number of form_verdict calls of the run
    ended,             \* `sufficient` and `conflict` when the run returned
    saw_evidence,      \* some iteration of the run merged a non-empty list
    \* ---- _decide_verdict on free inputs (SpecDecide)
    dv,
    \* ---- vector store, refresh job and readers (SpecRefresh)
    store,             \* collection name -> set of document ids, or Absent
    rpc,               \* position of the refresh job
    rdocs,             \* all_docs of the running refresh
    roffset,           \* batch offset i of the embed/insert loop
    rdata,             \* the `data` snapshot clone_collection took of src
    rret,              \* what run_refresh returned / how it ended
    rpre,              \* history: the store when the run started
    rpost,             \* history: the chunks this run built
    rops,              \* history: store operations this run executed
    rfailed,           \* history: a batch failed in this run
    rnoresults,        \* history: every seed query came back empty
    read_obs,          \* history: what the last reader query observed
    \* ---- POST /verify and the review store (SpecVerify, SpecReview)
    http,              \* the request being served and its response
    review_store,      \* review_store._store: claim_id -> pending record
    reviewers,         \* the concurrent POST /review/{claim_id} calls
    \* ---- pure functions on free inputs
    pq,                \* plan_queries (SpecPlan)
    sc,                \* form_verdict's credibility step (SpecForm)
    vq,                \* vector_store.query's clamp (SpecQuery)
    tk,                \* the top_k of the agentic loop (SpecTopK)
    rr,                \* rerank on longer lists (SpecRerank)
    ck,                \* _chunk_text (SpecChunk)
    vr                 \* a sequence of POST /verify requests (SpecPending)

vvars == <<MIN_SOURCES_FOR_VERDICT, CREDIBLE_DOMAINS, pc, claim, iteration,
           evidence, sufficient, conflict, top_k, use_current_only,
           cross_encoder, result, fv_evidence, decided, rerank_path,
           rerank_input, threw_inner, threw_outer, rerank_output, form_calls,
           ended, saw_evidence>>
dvars == <<dv>>
rvars == <<store, rpc, rdocs, roffset, rdata, rret, rpre, rpost, rops,
           rfailed, rnoresults, read_obs>>
hvars == <<http, review_store, reviewers>>
ovars == <<pq, sc, vq, tk, rr, ck, vr>>
vars == <<vvars, dvars, rvars, hvars, ovars>>

(***************************************************************************)
(* Bounds of the model.                                                    *)
(***************************************************************************)
MaxWeb == 2          \* raw results the web search returns in one gather
MaxRag == 2          \* raw results the vector store returns in one gather
MaxRel == 2          \* cross-encoder relevance scores are drawn from 0..MaxRel
MaxMinSources == 2   \* MIN_SOURCES_FOR_VERDICT is configured in 1..MaxMinSources

(***************************************************************************)
(* Program constants.                                                      *)
(***************************************************************************)
AGENTIC_LOOP_MAX_ITER == 3
RAG_TOP_K == 10
RERANK_TOP_K == 25
MIN_EVIDENCE_COUNT == 1
max_per_domain == 2
TOP_K_STEP == 5
TOP_K_CAP == 20

STANCE_SUPPORTS == "supports"
STANCE_REFUTES == "refutes"
STANCE_NEUTRAL == "neutral"
STANCE_UNSET == "unset"      \* EvidenceItem.stance = None

SUPPORTED == "Supported"
REFUTED == "Refuted"
NOT_ENOUGH_EVIDENCE == "Not Enough Evidence"
MIXED_DISPUTED == "Mixed / Disputed"
UNVERIFIABLE == "Unverifiable"
Verdict == {SUPPORTED, REFUTED, NOT_ENOUGH_EVIDENCE, MIXED_DISPUTED, UNVERIFIABLE}

(***************************************************************************)
(* URLs.  A URL is its host, as a sequence of tokens, its path segments    *)
(* and whether the path ends in "/".  String functions are modelled on     *)
(* the tokens.                                                             *)
(***************************************************************************)
URL_BBC_STORY == [host |-> <<"bbc.com">>, segs |-> <<"news", "story-abc123">>, slash |-> FALSE]
URL_WWW_BBC == [host |-> <<"www.", "bbc.com">>, segs |-> <<"sport", "2024", "story-abc123">>, slash |-> FALSE]
URL_UPPER_BBC == [host |-> <<"WWW.", "BBC.com">>, segs |-> <<"story-abc123">>, slash |-> FALSE]
URL_BLOG == [host |-> <<"blog.org">>, segs |-> <<"news", "2024">>, slash |-> FALSE]
URL_HOME == [host |-> <<"nytimes.com">>, segs |-> <<>>, slash |-> TRUE]

Urls == {URL_BBC_STORY, URL_WWW_BBC, URL_UPPER_BBC, URL_BLOG, URL_HOME}

\* str.lower() on a host token
Lower(tok) ==
    CASE tok = "WWW." -> "www."
      [] tok = "BBC.com" -> "bbc.com"
      [] OTHER -> tok

LowerHost(host) == [i \in 1..Len(host) |-> Lower(host[i])]

\* str.replace("www.", "")
RemoveWww(host) == SelectSeq(host, LAMBDA t : t # "www.")

\* netloc[4:] if netloc.startswith("www.")
StripLeadingWww(host) ==
    IF Len(host) > 0 /\ Head(host) = "www." THEN Tail(host) ELSE host

\* the domain the reranker counts
RerankDomain(url) == RemoveWww(LowerHost(url.host))

\* <<>> stands for None
_domain_from_url(url) == StripLeadingWww(LowerHost(url.host))

is_credible_url(url, allowed_domains) ==
    /\ allowed_domains # {}
    /\ _domain_from_url(url) # <<>>
    /\ _domain_from_url(url) \in allowed_domains

homepage_patterns ==
    {"home", "index", "main", "default", "welcome", "news", "about", "contact",
     "search", "sitemap", "fact-check", "factcheck", "technology", "tech",
     "politics", "sports", "entertainment", "business", "world", "national",
     "local", "opinion", "lifestyle", "health", "science", "athletic", "sport",
     "athletics"}

\* second_segment.replace("-", "").replace("_", "").isalnum() and len > 5
\* and not in {"news", "articles", "stories", "posts"}
LooksLikeArticleId(seg) == seg \in {"story-abc123"}

_is_homepage_url(url) ==
    \/ url.segs = <<>>
    \/ Len(url.segs) = 1 /\ url.segs[1] \in homepage_patterns
    \/ Len(url.segs) = 2 /\ url.slash /\ ~LooksLikeArticleId(url.segs[2])

category_patterns ==
    {"news", "sports", "sport", "athletic", "athletics", "technology", "tech",
     "politics", "business", "health"}

\* 20 * _url_quality_score(url)
_url_quality_score(url) ==
    IF url.segs = <<>> THEN 0
    ELSE IF Len(url.segs) >= 3 THEN 20
    ELSE IF Len(url.segs) = 2
         THEN (IF LooksLikeArticleId(url.segs[2]) THEN 18 ELSE 6)
    ELSE (IF url.segs[1] \in category_patterns \/ url.slash THEN 4 ELSE 12)

\* 10 * _source_preference_score(source)
_source_preference_score(source) ==
    IF source = "tavily" THEN 10
    ELSE IF source = "rag" THEN 7
    ELSE 8


(***************************************************************************)
(* Evidence items and the two agents.                                      *)
(***************************************************************************)
EvidenceItem(url, source) == [url |-> url, source |-> source, stance |-> STANCE_UNSET]

\* what the vector store can hold: metadata.url and metadata.source
\* ("serp" is what the refresh job writes; no source reads as "rag")
RagDocs ==
    {[url |-> URL_WWW_BBC, source |-> "rag"],
     [url |-> URL_UPPER_BBC, source |-> "serp"],
     [url |-> URL_BLOG, source |-> "serp"],
     [url |-> URL_HOME, source |-> "rag"]}

\* what the web search can return
WebUrls == {URL_BBC_STORY, URL_WWW_BBC, URL_HOME}

SeqsUpTo(S, n) == UNION {[1..k -> S] : k \in 0..n}

\* the `if not url or url in seen_urls: continue` loops of both agents
RECURSIVE FirstPerUrl(_, _)
FirstPerUrl(items, seen) ==
    IF items = <<>> THEN <<>>
    ELSE IF Head(items).url \in seen THEN FirstPerUrl(Tail(items), seen)
    ELSE <<Head(items)>> \o FirstPerUrl(Tail(items), seen \cup {Head(items).url})

\* raw: the urls of the search results of all planned queries, in order
fetch_evidence(raw) ==
    FirstPerUrl([i \in 1..Len(raw) |-> EvidenceItem(raw[i], "tavily")], {})

\* raw: the query results of the collections, in order
retrieve(raw) ==
    FirstPerUrl([i \in 1..Len(raw) |-> EvidenceItem(raw[i].url, raw[i].source)], {})

(***************************************************************************)
(* Merger.                                                                 *)
(***************************************************************************)
RECURSIVE MergeLoop(_, _)
MergeLoop(items, seen) ==
    IF items = <<>> THEN <<>>
    ELSE LET item == Head(items) IN
         IF item.url \in seen THEN MergeLoop(Tail(items), seen)
         ELSE IF item.source = "rag" /\ _is_homepage_url(item.url)
              THEN MergeLoop(Tail(items), seen)
         ELSE IF _is_homepage_url(item.url) THEN MergeLoop(Tail(items), seen)
         ELSE <<item>> \o MergeLoop(Tail(items), seen \cup {item.url})

RECURSIVE MergeLoopNoSeen(_)
MergeLoopNoSeen(items) ==
    IF items = <<>> THEN <<>>
    ELSE IF _is_homepage_url(Head(items).url) THEN MergeLoopNoSeen(Tail(items))
    ELSE <<Head(items)>> \o MergeLoopNoSeen(Tail(items))

\* the merger without its `url in seen` test
MergeKeepingDuplicates(web_items, rag_items) == MergeLoopNoSeen(web_items \o rag_items)

RECURSIVE MergeLoopNoHomepageTest(_, _)
MergeLoopNoHomepageTest(items, seen) ==
    IF items = <<>> THEN <<>>
    ELSE IF Head(items).url \in seen THEN MergeLoopNoHomepageTest(Tail(items), seen)
    ELSE <<Head(items)>>
             \o MergeLoopNoHomepageTest(Tail(items), seen \cup {Head(items).url})

\* the merger without its _is_homepage_url test
MergeKeepingHomepages(web_items, rag_items) ==
    MergeLoopNoHomepageTest(web_items \o rag_items, {})

_merge_and_dedupe(web_items, rag_items) == MergeLoop(web_items \o rag_items, {})

(***************************************************************************)
(* Reranker.                                                               *)
(***************************************************************************)
Min(S) == CHOOSE x \in S : \A y \in S : x <= y
Max(S) == CHOOSE x \in S : \A y \in S : x >= y

\* 100 * rel_range * hybrid_score of item i
HybridScore(items, relevance_scores, i) ==
    LET rs == {relevance_scores[j] : j \in 1..Len(relevance_scores)}
        min_rel == Min(rs)
        max_rel == Max(rs)
        rel_range == IF max_rel # min_rel THEN max_rel - min_rel ELSE 1
    IN  70 * (relevance_scores[i] - min_rel)
        + rel_range * (_url_quality_score(items[i].url)
                       + _source_preference_score(items[i].source))

\* list.sort(key=..., reverse=True): descending and stable
RECURSIVE InsertDesc(_, _)
InsertDesc(sorted, x) ==
    IF sorted = <<>> THEN <<x>>
    ELSE IF Head(sorted).score >= x.score
         THEN <<Head(sorted)>> \o InsertDesc(Tail(sorted), x)
    ELSE <<x>> \o sorted

RECURSIVE SortDesc(_, _)
SortDesc(todo, acc) ==
    IF todo = <<>> THEN acc ELSE SortDesc(Tail(todo), InsertDesc(acc, Head(todo)))

CountOf(counted, d) == Cardinality({i \in 1..Len(counted) : counted[i] = d})

\* the diversity loop; `counted` holds one entry per domain_count increment
RECURSIVE DiversityLoop(_, _, _, _)
DiversityLoop(hybrid_scores, res, counted, k) ==
    IF hybrid_scores = <<>> \/ Len(res) >= k THEN res
    ELSE LET item == Head(hybrid_scores).item
             domain == RerankDomain(item.url)
         IN  IF domain # <<>> /\ CountOf(counted, domain) >= max_per_domain
             THEN DiversityLoop(Tail(hybrid_scores), res, counted, k)
             ELSE DiversityLoop(Tail(hybrid_scores), Append(res, item),
                                Append(counted, domain), k)

RECURSIVE TakeTopK(_, _)
TakeTopK(hybrid_scores, k) ==
    IF hybrid_scores = <<>> \/ k <= 0 THEN <<>>
    ELSE <<Head(hybrid_scores).item>> \o TakeTopK(Tail(hybrid_scores), k - 1)

\* the selection loop without its per-domain test
SelectWithoutDomainCap(hybrid_scores, k) == TakeTopK(hybrid_scores, k)

SelectDiverse(hybrid_scores, k) == DiversityLoop(hybrid_scores, <<>>, <<>>, k)

\* rerank on its scoring path: relevance_scores has one score per item
RerankScored(items, relevance_scores, k) ==
    LET hybrid_scores ==
            SortDesc([i \in 1..Len(items) |->
                         [score |-> HybridScore(items, relevance_scores, i),
                          item |-> items[i]]], <<>>)
    IN  SelectDiverse(hybrid_scores, k)

\* outcome: "load_failed", "predict_failed", "length_mismatch" or "scored"
rerank(items, k, outcome, relevance_scores) ==
    IF items = <<>> THEN items
    ELSE LET filtered_items == SelectSeq(items, LAMBDA it : ~_is_homepage_url(it.url)) IN
         IF filtered_items = <<>> THEN <<>>
         ELSE IF outcome # "scored" THEN filtered_items
         ELSE RerankScored(filtered_items, relevance_scores, k)


(***************************************************************************)
(* Evidence evaluator.                                                     *)
(***************************************************************************)
Stances == {STANCE_SUPPORTS, STANCE_REFUTES, STANCE_NEUTRAL}

\* e.stance or STANCE_NEUTRAL
StanceOf(e) == IF e.stance = STANCE_UNSET THEN STANCE_NEUTRAL ELSE e.stance

HasStance(ev, s) == \E i \in 1..Len(ev) : StanceOf(ev[i]) = s

\* labels: what _classify_stances_batch returned, one label per item
\* stances attached while the list is turned round
AttachStancesReversed(ev, labels) ==
    [i \in 1..Len(ev) |-> [ev[Len(ev) + 1 - i] EXCEPT !.stance = labels[i]]]

attach_stances(ev, labels) == [i \in 1..Len(ev) |-> [ev[i] EXCEPT !.stance = labels[i]]]

is_sufficient(ev) == Len(ev) >= MIN_SOURCES_FOR_VERDICT

\* has_conflict with `or` in place of `and`
HasEitherStance(ev) == HasStance(ev, STANCE_SUPPORTS) \/ HasStance(ev, STANCE_REFUTES)

has_conflict(ev) == HasStance(ev, STANCE_SUPPORTS) /\ HasStance(ev, STANCE_REFUTES)

(***************************************************************************)
(* Verdict former and validation rules.                                    *)
(***************************************************************************)
\* _decide_verdict testing the conflict flag before the sufficiency test
DecideConflictFirst(ev, sufficient_flag, conflict_flag) ==
    IF conflict_flag THEN MIXED_DISPUTED
    ELSE IF ev = <<>> \/ ~sufficient_flag THEN NOT_ENOUGH_EVIDENCE
    ELSE IF HasStance(ev, STANCE_SUPPORTS) /\ ~HasStance(ev, STANCE_REFUTES) THEN SUPPORTED
    ELSE IF HasStance(ev, STANCE_REFUTES) /\ ~HasStance(ev, STANCE_SUPPORTS) THEN REFUTED
    ELSE NOT_ENOUGH_EVIDENCE

_decide_verdict(ev, sufficient_flag, conflict_flag) ==
    IF ev = <<>> \/ ~sufficient_flag THEN NOT_ENOUGH_EVIDENCE
    ELSE IF conflict_flag THEN MIXED_DISPUTED
    ELSE IF HasStance(ev, STANCE_SUPPORTS) /\ ~HasStance(ev, STANCE_REFUTES) THEN SUPPORTED
    ELSE IF HasStance(ev, STANCE_REFUTES) /\ ~HasStance(ev, STANCE_SUPPORTS) THEN REFUTED
    ELSE NOT_ENOUGH_EVIDENCE

\* a Citation, without its title and snippet
_evidence_to_citations(ev) == [i \in 1..Len(ev) |-> [url |-> ev[i].url]]

filter_credible_citations(citations, allowed_domains) ==
    IF citations = <<>> \/ allowed_domains = {}
    THEN (IF allowed_domains # {} THEN citations ELSE <<>>)
    ELSE SelectSeq(citations, LAMBDA c : is_credible_url(c.url, allowed_domains))

\* form_verdict taking the credible citations whatever their number
CredibleOnly(citations, credible_citations) == credible_citations

\* lines 96-109 of form_verdict; len(credible) < len(citations) * 0.3 in tenths
SoftenCredibility(citations, credible_citations) ==
    IF credible_citations = <<>> THEN citations
    ELSE IF Len(credible_citations) < 3
            /\ 10 * Len(credible_citations) < 3 * Len(citations)
         THEN citations
    ELSE credible_citations

R_FALLBACK == <<"Evidence was evaluated against the claim; see citations for sources.">>
R_BLANK == <<"Evidence was evaluated; see citations.">>
R_LLM == <<"(text of the LLM)">>
R_NO_CLAIM == <<"No claim provided.">>
R_GENERIC == <<"Verification could not be completed. Please try again.">>
R_SUFFIX == " Insufficient cited sources to support this verdict; reporting Not Enough Evidence."
R_INSUFFICIENT == <<"Insufficient cited sources; reporting Not Enough Evidence.">>

LlmOutcomes == {"text", "blank", "failed"}

\* llm: the completion came back with text, came back blank, or failed
\* (no API key reads as failed)
_generate_reasoning(ev, llm) ==
    IF ev = <<>> THEN R_FALLBACK
    ELSE IF llm = "text" THEN R_LLM
    ELSE IF llm = "blank" THEN R_BLANK
    ELSE R_FALLBACK

\* the validation called with min_sources = MIN_SOURCES_FOR_VERDICT
ValidateAgainstConfigured(proposed_verdict, reasoning, citations, allowed_urls) ==
    LET filtered == SelectSeq(citations, LAMBDA c : c.url \in allowed_urls) IN
    IF proposed_verdict \in {SUPPORTED, REFUTED} /\ Len(filtered) < MIN_SOURCES_FOR_VERDICT
    THEN [verdict |-> NOT_ENOUGH_EVIDENCE, reasoning |-> Append(reasoning, R_SUFFIX),
          citations |-> filtered]
    ELSE [verdict |-> proposed_verdict, reasoning |-> reasoning, citations |-> filtered]

apply_validation_rules(proposed_verdict, reasoning, citations, allowed_urls) ==
    LET filtered == SelectSeq(citations, LAMBDA c : c.url \in allowed_urls) IN
    IF proposed_verdict \notin {SUPPORTED, REFUTED}
    THEN [verdict |-> proposed_verdict, reasoning |-> reasoning, citations |-> filtered]
    ELSE IF Len(filtered) < MIN_EVIDENCE_COUNT
         THEN [verdict |-> NOT_ENOUGH_EVIDENCE,
               reasoning |-> IF reasoning # <<>> THEN Append(reasoning, R_SUFFIX)
                             ELSE R_INSUFFICIENT,
               citations |-> filtered]
    ELSE [verdict |-> proposed_verdict, reasoning |-> reasoning, citations |-> filtered]

form_verdict(ev, sufficient_flag, conflict_flag, llm) ==
    LET verdict == _decide_verdict(ev, sufficient_flag, conflict_flag)
        citations == _evidence_to_citations(ev)
        credible_citations == filter_credible_citations(citations, CREDIBLE_DOMAINS)
        kept == SoftenCredibility(citations, credible_citations)
        reasoning == _generate_reasoning(ev, llm)
        allowed_urls == {ev[i].url : i \in 1..Len(ev)}
    IN  apply_validation_rules(verdict, reasoning, kept, allowed_urls)

(***************************************************************************)
(* run_verification.                                                       *)
(***************************************************************************)
Claims == {"", "  ", "Vitamin C prevents the common cold."}

\* str.strip()
Strip(s) == IF s = "  " THEN "" ELSE s

NoResult ==
    [verdict |-> "(none)", reasoning |-> <<>>, citations |-> <<>>,
     requires_review |-> FALSE]

\* the safe result keeping the requires_review flag of the ambiguous case
SafeResultFlagged ==
    [verdict |-> NOT_ENOUGH_EVIDENCE, reasoning |-> R_GENERIC, citations |-> <<>>,
     requires_review |-> TRUE]

\* the dict of the `except Exception` branch
SafeResult ==
    [verdict |-> NOT_ENOUGH_EVIDENCE, reasoning |-> R_GENERIC, citations |-> <<>>,
     requires_review |-> FALSE]

NoClaimResult ==
    [verdict |-> NOT_ENOUGH_EVIDENCE, reasoning |-> R_NO_CLAIM, citations |-> <<>>,
     requires_review |-> FALSE]

\* the citation dict with its url rewritten to the canonical host
CitationDictCanonical(c) == [url |-> [c.url EXCEPT !.host = _domain_from_url(c.url)]]

\* {"title": c.title, "url": c.url, "snippet": c.snippet}
CitationDict(c) == [url |-> c.url]

\* the dict `out` without lines 133-135
BuildOutUnflagged(fv, sufficient_flag, conflict_flag) ==
    [verdict |-> fv.verdict,
     reasoning |-> fv.reasoning,
     citations |-> [i \in 1..Len(fv.citations) |-> [url |-> fv.citations[i].url]],
     requires_review |-> FALSE]

\* the dict `out`; verify always passes a claim_id
BuildOut(fv, sufficient_flag, conflict_flag) ==
    [verdict |-> fv.verdict,
     reasoning |-> fv.reasoning,
     citations |-> [i \in 1..Len(fv.citations) |-> CitationDict(fv.citations[i])],
     requires_review |-> (~sufficient_flag \/ conflict_flag)]

\* widening that leaves top_k as it is
WidenNothing(k) == k

Widen(k) == IF k + TOP_K_STEP < TOP_K_CAP THEN k + TOP_K_STEP ELSE TOP_K_CAP

\* a loop that runs one iteration more than range(AGENTIC_LOOP_MAX_ITER)
AfterLoopOneMore(next_iteration) ==
    IF next_iteration <= AGENTIC_LOOP_MAX_ITER THEN "gather" ELSE "form"

AfterLoop(next_iteration) ==
    IF next_iteration < AGENTIC_LOOP_MAX_ITER THEN "gather" ELSE "form"

\* the locals of run_verification as lines 80-84 set them, and as they are
\* once the function has returned
LocalsInitial ==
    /\ iteration' = 0
    /\ evidence' = <<>>
    /\ sufficient' = FALSE
    /\ conflict' = FALSE
    /\ top_k' = RAG_TOP_K
    /\ use_current_only' = FALSE

StartRun ==
    /\ pc = "start"
    /\ claim' = Strip(claim)
    /\ IF Strip(claim) = ""
       THEN /\ pc' = "done"
            /\ result' = NoClaimResult
       ELSE /\ pc' = IF AGENTIC_LOOP_MAX_ITER > 0 THEN "gather" ELSE "form"
            /\ result' = result
    /\ LocalsInitial
    /\ UNCHANGED <<MIN_SOURCES_FOR_VERDICT, CREDIBLE_DOMAINS, cross_encoder,
                   fv_evidence, decided, rerank_path, rerank_input, threw_inner,
                   threw_outer, rerank_output, form_calls, ended, saw_evidence>>
    /\ UNCHANGED <<dvars, rvars, hvars, ovars>>

\* lines 89-106: both agents, the merge, and the empty-evidence branch
GatherEvidence ==
    /\ pc = "gather"
    /\ \E web_throws \in BOOLEAN, rag_throws \in BOOLEAN :
       \E raw_web \in (IF web_throws THEN {<<>>} ELSE SeqsUpTo(WebUrls, MaxWeb)),
          raw_rag \in (IF rag_throws THEN {<<>>} ELSE SeqsUpTo(RagDocs, MaxRag)) :
          LET web_items == IF web_throws THEN <<>> ELSE fetch_evidence(raw_web)
              rag_items == IF rag_throws THEN <<>> ELSE retrieve(raw_rag)
              merged == _merge_and_dedupe(web_items, rag_items)
          IN  /\ evidence' = merged
              /\ threw_inner' = (threw_inner \/ web_throws \/ rag_throws)
              /\ saw_evidence' = (saw_evidence \/ merged # <<>>)
              /\ IF merged = <<>>
                 THEN /\ IF iteration < AGENTIC_LOOP_MAX_ITER - 1
                         THEN /\ top_k' = Widen(top_k)
                              /\ use_current_only' = TRUE
                         ELSE UNCHANGED <<top_k, use_current_only>>
                      /\ iteration' = iteration + 1
                      /\ pc' = AfterLoop(iteration + 1)
                 ELSE /\ pc' = "rerank"
                      /\ UNCHANGED <<top_k, use_current_only, iteration>>
    /\ rerank_path' = "none"
    /\ rerank_input' = <<>>
    /\ rerank_output' = <<>>
    /\ UNCHANGED <<MIN_SOURCES_FOR_VERDICT, CREDIBLE_DOMAINS, claim, sufficient,
                   conflict, cross_encoder, result, fv_evidence, decided, threw_outer,
                   form_calls, ended>>
    /\ UNCHANGED <<dvars, rvars, hvars, ovars>>

RerankOutcomes == {"load_failed", "predict_failed", "length_mismatch", "scored", "raised"}

\* the return path as the history keeps it
PathOf(outcome) ==
    IF outcome \in {"scored", "raised"} THEN outcome ELSE "unchanged"

\* lines 108-113: rerank_evidence inside its own try/except
Rerank ==
    /\ pc = "rerank"
    /\ \E outcome \in RerankOutcomes :
       \E relevance_scores \in (IF outcome = "scored"
                                THEN [1..Len(evidence) -> 0..MaxRel] ELSE {<<>>}) :
          /\ outcome = "load_failed" => ~cross_encoder
          /\ cross_encoder' = (cross_encoder \/ outcome # "load_failed")
          /\ evidence' = IF outcome = "raised" THEN evidence
                         ELSE rerank(evidence, RERANK_TOP_K, outcome, relevance_scores)
          /\ rerank_path' = PathOf(outcome)
          /\ threw_inner' = (threw_inner \/ outcome = "raised")
          /\ rerank_output' = IF outcome = "raised" THEN <<>>
                               ELSE rerank(evidence, RERANK_TOP_K, outcome,
                                           relevance_scores)
    /\ rerank_input' = evidence
    /\ pc' = "evaluate"
    /\ UNCHANGED <<MIN_SOURCES_FOR_VERDICT, CREDIBLE_DOMAINS, claim, iteration,
                   sufficient, conflict, top_k, use_current_only, result,
                   fv_evidence, decided, threw_outer, form_calls, ended,
                   saw_evidence>>
    /\ UNCHANGED <<dvars, rvars, hvars, ovars>>

\* lines 115-124: stances, the two flags, break or refine.  When the loop
\* goes on, `evidence` is reassigned by the merge before anything reads it,
\* so the model does not carry the old list into the next iteration.
Evaluate ==
    /\ pc = "evaluate"
    /\ \E labels \in [1..Len(evidence) -> Stances] :
          LET labelled == attach_stances(evidence, labels)
              s == is_sufficient(labelled)
              c == has_conflict(labelled)
          IN  /\ sufficient' = s
              /\ conflict' = c
              /\ IF s /\ ~c
                 THEN /\ pc' = "form"
                      /\ evidence' = labelled
                      /\ UNCHANGED <<top_k, use_current_only, iteration>>
                 ELSE /\ top_k' = Widen(top_k)
                      /\ use_current_only' =
                            (use_current_only \/ iteration + 1 < AGENTIC_LOOP_MAX_ITER)
                      /\ iteration' = iteration + 1
                      /\ pc' = AfterLoop(iteration + 1)
                      /\ evidence' = IF AfterLoop(iteration + 1) = "gather"
                                     THEN <<>> ELSE labelled
    /\ rerank_input' = <<>>
    /\ rerank_output' = IF pc' = "gather" THEN <<>> ELSE rerank_output
    /\ UNCHANGED <<MIN_SOURCES_FOR_VERDICT, CREDIBLE_DOMAINS, claim, cross_encoder,
                   result, fv_evidence, decided, rerank_path, threw_inner,
                   threw_outer, form_calls, ended, saw_evidence>>
    /\ UNCHANGED <<dvars, rvars, hvars, ovars>>

\* lines 126-136
FormVerdict ==
    /\ pc = "form"
    /\ \E llm \in LlmOutcomes :
          result' = BuildOut(form_verdict(evidence, sufficient, conflict, llm),
                             sufficient, conflict)
    /\ fv_evidence' = evidence
    /\ decided' = _decide_verdict(evidence, sufficient, conflict)
    /\ form_calls' = form_calls + 1
    /\ ended' = [returned |-> TRUE, sufficient |-> sufficient, conflict |-> conflict]
    /\ pc' = "done"
    /\ LocalsInitial
    /\ UNCHANGED <<MIN_SOURCES_FOR_VERDICT, CREDIBLE_DOMAINS, claim,
                   cross_encoder, rerank_path, rerank_input, threw_inner,
                   threw_outer, rerank_output, saw_evidence>>
    /\ UNCHANGED <<dvars, rvars, hvars, ovars>>

\* lines 137-143: a step outside the inner handlers (the merge, the stance
\* step, the two predicates, form_verdict) raises
PipelineException ==
    /\ pc \in {"gather", "evaluate", "form"}
    /\ result' = SafeResult
    /\ threw_outer' = TRUE
    /\ pc' = "done"
    /\ LocalsInitial
    /\ rerank_input' = <<>>
    /\ rerank_output' = <<>>
    /\ form_calls' = IF pc = "form" THEN form_calls + 1 ELSE form_calls
    /\ ended' = [returned |-> TRUE, sufficient |-> sufficient, conflict |-> conflict]
    /\ UNCHANGED <<MIN_SOURCES_FOR_VERDICT, CREDIBLE_DOMAINS, claim,
                   cross_encoder, fv_evidence, decided, rerank_path, threw_inner,
                   saw_evidence>>
    /\ UNCHANGED <<dvars, rvars, hvars, ovars>>

NotEnded == [returned |-> FALSE, sufficient |-> FALSE, conflict |-> FALSE]

AllowLists == SUBSET {<<"bbc.com">>, <<"blog.org">>}

InitVerification ==
    /\ MIN_SOURCES_FOR_VERDICT \in 1..MaxMinSources
    /\ CREDIBLE_DOMAINS \in AllowLists
    /\ pc = "start"
    /\ claim \in Claims
    /\ iteration = 0
    /\ evidence = <<>>
    /\ sufficient = FALSE
    /\ conflict = FALSE
    /\ top_k = RAG_TOP_K
    /\ use_current_only = FALSE
    /\ cross_encoder = FALSE
    /\ result = NoResult
    /\ fv_evidence = <<>>
    /\ decided = "(none)"
    /\ rerank_path = "none"
    /\ rerank_input = <<>>
    /\ threw_inner = FALSE
    /\ threw_outer = FALSE
    /\ rerank_output = <<>>
    /\ form_calls = 0
    /\ ended = NotEnded
    /\ saw_evidence = FALSE

(***************************************************************************)
(* _decide_verdict on free inputs.                                         *)
(***************************************************************************)
MaxDecideLen == 3    \* longest evidence list given to _decide_verdict

StanceFields == Stances \cup {STANCE_UNSET}

ItemWithStance(st) == [url |-> URL_BBC_STORY, source |-> "tavily", stance |-> st]

IdleDecide ==
    dv = [phase |-> "idle", ev |-> <<>>, sufficient |-> FALSE, conflict |-> FALSE,
          verdict |-> "(none)"]

InitDecide ==
    \E st \in SeqsUpTo(StanceFields, MaxDecideLen), s \in BOOLEAN, c \in BOOLEAN :
        dv = [phase |-> "input",
              ev |-> [i \in 1..Len(st) |-> ItemWithStance(st[i])],
              sufficient |-> s, conflict |-> c, verdict |-> "(none)"]

Decide ==
    /\ dv.phase = "input"
    /\ dv' = [dv EXCEPT !.phase = "output",
                        !.verdict = _decide_verdict(dv.ev, dv.sufficient, dv.conflict)]
    /\ UNCHANGED <<vvars, rvars, hvars, ovars>>

(***************************************************************************)
(* Vector store (services/vector_store.py): each collection is absent or   *)
(* holds a set of document ids.                                            *)
(***************************************************************************)
COLLECTION_CURRENT_AFFAIRS_24H == "current_affairs_24h"
REFRESH_TEMP_COLLECTION == "current_affairs_24h_new"

Absent == [exists |-> FALSE, docs |-> {}]

Content(st, name) == st[name].docs

\* a delete_collection that leaves the collection in place
KeepCollection(st, name) == st

\* client.delete_collection inside delete_collection's try/except
delete_collection(st, name) == [st EXCEPT ![name] = Absent]

get_or_create_collection(st, name) == [st EXCEPT ![name].exists = TRUE]

\* get_or_create_collection followed by coll.add
add_documents_with_embeddings(st, name, ids) ==
    [st EXCEPT ![name] = [exists |-> TRUE, docs |-> st[name].docs \cup ids]]

\* the ids get_all returns: none for a missing or empty collection
get_all(st, name) == IF st[name].exists THEN st[name].docs ELSE {}

(***************************************************************************)
(* Refresh job (jobs/refresh_kb.py) and readers.                           *)
(***************************************************************************)
MaxDocs == 3                   \* chunk ids are 1..MaxDocs
REFRESH_EMBED_BATCH_SIZE == 2  \* the configured batch size

OldDoc == MaxDocs + 1          \* the id of a chunk of an earlier day

RECURSIVE SortedSeq(_)
SortedSeq(S) ==
    IF S = {} THEN <<>>
    ELSE LET m == Min(S) IN <<m>> \o SortedSeq(S \ {m})

SeqSet(q) == {q[i] : i \in 1..Len(q)}

NoReturn == [kind |-> "none", n |-> 0]
Returned(n) == [kind |-> "returned", n |-> n]
Raised == [kind |-> "raised", n |-> 0]

\* run_refresh going on to its delete_collection whatever it gathered
AlwaysRebuild(all_docs) == "delete_temp"

\* lines 121-147: the two early returns of run_refresh
AfterGather(all_docs) == IF all_docs = <<>> THEN "idle" ELSE "delete_temp"

\* the except branch logging the failure and going on with the next batch
GoOnAfterBatchFailure(offset, all_docs) ==
    IF offset + REFRESH_EMBED_BATCH_SIZE < Len(all_docs) THEN "batch" ELSE "clone_get_all"

\* lines 168-170: the except branch re-raises
AfterBatchFailure(offset, all_docs) == "idle"

\* lines 110-147: the searches, the chunking, the early returns
RefreshGather ==
    /\ rpc = "idle"
    /\ \E no_results \in BOOLEAN :
       \E chunks \in (IF no_results THEN {{}} ELSE SUBSET (1..MaxDocs)) :
          /\ rnoresults' = no_results
          /\ rdocs' = SortedSeq(chunks)
          /\ rpost' = chunks
          /\ rpc' = AfterGather(SortedSeq(chunks))
          /\ rret' = IF AfterGather(SortedSeq(chunks)) = "idle" THEN Returned(0)
                     ELSE NoReturn
    /\ rpre' = store
    /\ rops' = <<>>
    /\ rfailed' = FALSE
    /\ roffset' = 0
    /\ rdata' = {}
    /\ read_obs' = [valid |-> FALSE, docs |-> {}]
    /\ UNCHANGED <<store>>
    /\ UNCHANGED <<vvars, dvars, hvars, ovars>>

\* line 149
RefreshDeleteTemp ==
    /\ rpc = "delete_temp"
    /\ store' = delete_collection(store, REFRESH_TEMP_COLLECTION)
    /\ rops' = Append(rops, "delete_temp")
    /\ rpc' = IF Len(rdocs) > 0 THEN "batch" ELSE "clone_get_all"
    /\ UNCHANGED <<rdocs, roffset, rdata, rret, rpre, rpost, rfailed, rnoresults,
                   read_obs>>
    /\ UNCHANGED <<vvars, dvars, hvars, ovars>>

BatchIds(all_docs, offset) ==
    {all_docs[i] : i \in {j \in 1..Len(all_docs) :
                            j > offset /\ j <= offset + REFRESH_EMBED_BATCH_SIZE}}

\* lines 155-170: one pass of the batch loop; embed or add may raise
RefreshBatch ==
    /\ rpc = "batch"
    /\ \/ /\ store' = add_documents_with_embeddings(
                          store, REFRESH_TEMP_COLLECTION, BatchIds(rdocs, roffset))
          /\ rops' = Append(rops, "add_temp")
          /\ roffset' = roffset + REFRESH_EMBED_BATCH_SIZE
          /\ rpc' = IF roffset + REFRESH_EMBED_BATCH_SIZE < Len(rdocs)
                    THEN "batch" ELSE "clone_get_all"
          /\ UNCHANGED <<rret, rfailed>>
       \/ /\ rfailed' = TRUE
          /\ rpc' = AfterBatchFailure(roffset, rdocs)
          /\ rret' = IF AfterBatchFailure(roffset, rdocs) = "idle" THEN Raised ELSE rret
          /\ roffset' = roffset + REFRESH_EMBED_BATCH_SIZE
          /\ UNCHANGED <<store, rops>>
    /\ UNCHANGED <<rdocs, rdata, rpre, rpost, rnoresults, read_obs>>
    /\ UNCHANGED <<vvars, dvars, hvars, ovars>>

\* clone_collection, line 178: data = get_all(src_name)
CloneGetAll ==
    /\ rpc = "clone_get_all"
    /\ rdata' = get_all(store, REFRESH_TEMP_COLLECTION)
    /\ rops' = Append(rops, "clone")
    /\ rpc' = "clone_delete_dest"
    /\ UNCHANGED <<store, rdocs, roffset, rret, rpre, rpost, rfailed, rnoresults,
                   read_obs>>
    /\ UNCHANGED <<vvars, dvars, hvars, ovars>>

\* clone_collection, line 183: delete_collection(dest_name)
CloneDeleteDest ==
    /\ rpc = "clone_delete_dest"
    /\ store' = delete_collection(store, COLLECTION_CURRENT_AFFAIRS_24H)
    /\ rops' = Append(rops, "delete_live")
    /\ rpc' = "clone_copy"
    /\ UNCHANGED <<rdocs, roffset, rdata, rret, rpre, rpost, rfailed, rnoresults,
                   read_obs>>
    /\ UNCHANGED <<vvars, dvars, hvars, ovars>>

\* clone_collection, lines 184-189: create the empty dest, or add the copy
\* (which may raise)
CloneCopy ==
    /\ rpc = "clone_copy"
    /\ \/ /\ store' = IF rdata = {}
                      THEN get_or_create_collection(store, COLLECTION_CURRENT_AFFAIRS_24H)
                      ELSE add_documents_with_embeddings(
                               store, COLLECTION_CURRENT_AFFAIRS_24H, rdata)
          /\ rops' = Append(rops, "add_live")
          /\ rpc' = "clone_delete_src"
          /\ UNCHANGED <<rret>>
       \/ /\ rdata # {}
          /\ rpc' = "idle"
          /\ rret' = Raised
          /\ UNCHANGED <<store, rops>>
    /\ UNCHANGED <<rdocs, roffset, rdata, rpre, rpost, rfailed, rnoresults, read_obs>>
    /\ UNCHANGED <<vvars, dvars, hvars, ovars>>

\* clone_collection, line 190, and the return of run_refresh
CloneDeleteSrc ==
    /\ rpc = "clone_delete_src"
    /\ store' = delete_collection(store, REFRESH_TEMP_COLLECTION)
    /\ rops' = Append(rops, "delete_temp")
    /\ rpc' = "idle"
    /\ rret' = Returned(Len(rdocs))
    /\ UNCHANGED <<rdocs, roffset, rdata, rpre, rpost, rfailed, rnoresults, read_obs>>
    /\ UNCHANGED <<vvars, dvars, hvars, ovars>>

\* vector_store.query on the live collection, as rag_agent.retrieve calls it:
\* get_or_create_collection, then the documents the index returns (top_k is
\* larger than any collection of the model)
ReaderQuery ==
    /\ store' = get_or_create_collection(store, COLLECTION_CURRENT_AFFAIRS_24H)
    /\ read_obs' = [valid |-> TRUE,
                    docs |-> Content(store, COLLECTION_CURRENT_AFFAIRS_24H)]
    /\ UNCHANGED <<rpc, rdocs, roffset, rdata, rret, rpre, rpost, rops, rfailed,
                   rnoresults>>
    /\ UNCHANGED <<vvars, dvars, hvars, ovars>>

StoreOf(live, temp) ==
    (COLLECTION_CURRENT_AFFAIRS_24H :> live) @@ (REFRESH_TEMP_COLLECTION :> temp)

InitRefresh ==
    /\ store \in {StoreOf(Absent, Absent),
                  StoreOf([exists |-> TRUE, docs |-> {OldDoc}], Absent)}
    /\ rpc = "idle"
    /\ rdocs = <<>>
    /\ roffset = 0
    /\ rdata = {}
    /\ rret = NoReturn
    /\ rpre = store
    /\ rpost = {}
    /\ rops = <<>>
    /\ rfailed = FALSE
    /\ rnoresults = FALSE
    /\ read_obs = [valid |-> FALSE, docs |-> {}]

IdleRefresh ==
    /\ store = StoreOf(Absent, Absent)
    /\ rpc = "off"
    /\ rdocs = <<>>
    /\ roffset = 0
    /\ rdata = {}
    /\ rret = NoReturn
    /\ rpre = store
    /\ rpost = {}
    /\ rops = <<>>
    /\ rfailed = FALSE
    /\ rnoresults = FALSE
    /\ read_obs = [valid |-> FALSE, docs |-> {}]

IdleVerification ==
    /\ MIN_SOURCES_FOR_VERDICT = 1
    /\ CREDIBLE_DOMAINS = {}
    /\ pc = "off"
    /\ claim = ""
    /\ iteration = 0
    /\ evidence = <<>>
    /\ sufficient = FALSE
    /\ conflict = FALSE
    /\ top_k = RAG_TOP_K
    /\ use_current_only = FALSE
    /\ cross_encoder = FALSE
    /\ result = NoResult
    /\ fv_evidence = <<>>
    /\ decided = "(none)"
    /\ rerank_path = "none"
    /\ rerank_input = <<>>
    /\ threw_inner = FALSE
    /\ threw_outer = FALSE
    /\ rerank_output = <<>>
    /\ form_calls = 0
    /\ ended = NotEnded
    /\ saw_evidence = FALSE

(***************************************************************************)
(* POST /verify (main.py) with claim intake and the review store.          *)
(***************************************************************************)
CLAIM_MAX_LENGTH == 2000

VALID_CLAIM == "Vitamin C prevents the common cold."
UNTIDY_CLAIM == "  Vitamin C   prevents the common cold. "
LONG_CLAIM == "(a claim of 2001 characters)"

RawClaims == {"", "  ", UNTIDY_CLAIM, LONG_CLAIM}

\* strip, NFKC, runs of whitespace collapsed to one space
normalize(c) ==
    IF c \in {"", "  "} THEN ""
    ELSE IF c = UNTIDY_CLAIM THEN VALID_CLAIM
    ELSE c

\* len() of a normalized claim
CharLen(c) ==
    IF c = "" THEN 0
    ELSE IF c = LONG_CLAIM THEN 2001
    ELSE 35

validate(c) ==
    IF normalize(c) = "" THEN [ok |-> FALSE, err |-> "Claim cannot be empty."]
    ELSE IF CharLen(normalize(c)) > CLAIM_MAX_LENGTH
         THEN [ok |-> FALSE, err |-> "Claim exceeds maximum length."]
    ELSE [ok |-> TRUE, err |-> "(none)"]

\* sha256(claim)[:16] + "_" + epoch seconds of the one request of the model
CLAIM_ID == "1f0c3a5be2d94c77_1700000000"

DETAIL_503 == "Verification temporarily unavailable. Please try again."

NoRequest == [phase |-> "idle", status |-> 0, detail |-> "(none)", out |-> <<>>]

EmptyStore == <<>>

PendingIds(st) == DOMAIN st

\* _store[claim_id] = {...}
add_pending(st, claim_id, item) ==
    [k \in (DOMAIN st) \cup {claim_id} |-> IF k = claim_id THEN item ELSE st[k]]

\* _store.pop(claim_id)
pop(st, claim_id) == [k \in (DOMAIN st) \ {claim_id} |-> st[k]]

\* verify never storing a draft
NeverPending(res) == FALSE

\* line 73: result.get("requires_review") and result.get("claim_id")
NeedsPending(res) == res.requires_review

\* line 82: the result without its requires_review and claim_id keys
ResponseBody(res) ==
    [k \in (DOMAIN res) \ {"requires_review", "claim_id"} |-> res[k]]

\* lines 62-69: intake, then the call of run_verification
VerifyReceive ==
    /\ http.phase = "request"
    /\ pc = "off"
    /\ IF validate(claim).ok
       THEN /\ claim' = normalize(claim)
            /\ pc' = "start"
            /\ http' = [http EXCEPT !.phase = "running"]
       ELSE /\ http' = [phase |-> "responded", status |-> 400,
                        detail |-> validate(claim).err, out |-> <<>>]
            /\ UNCHANGED <<claim, pc>>
    /\ UNCHANGED <<MIN_SOURCES_FOR_VERDICT, CREDIBLE_DOMAINS, iteration, evidence,
                   sufficient, conflict, top_k, use_current_only, cross_encoder,
                   result, fv_evidence, decided, rerank_path, rerank_input,
                   threw_inner, threw_outer, rerank_output, form_calls, ended,
                   saw_evidence>>
    /\ UNCHANGED <<review_store, reviewers>>
    /\ UNCHANGED <<dvars, rvars, ovars>>

\* lines 71-90: run_verification has returned.  The handler of lines 91-96
\* needs run_verification, add_pending or the logging to raise; run_verification
\* catches every Exception itself, so the model has no step into it.
VerifyRespond ==
    /\ http.phase = "running"
    /\ pc = "done"
    /\ review_store' = IF NeedsPending(result)
                       THEN add_pending(review_store, CLAIM_ID,
                                        [claim |-> claim,
                                         verdict |-> result.verdict,
                                         reasoning |-> result.reasoning,
                                         citations |-> result.citations])
                       ELSE review_store
    /\ http' = [phase |-> "responded", status |-> 200, detail |-> "(none)",
                out |-> ResponseBody(result)]
    /\ UNCHANGED <<vvars, reviewers>>
    /\ UNCHANGED <<dvars, rvars, ovars>>

IdleHttp ==
    /\ http = NoRequest
    /\ review_store = EmptyStore
    /\ reviewers = <<>>

IdleLaterProbes ==
    /\ tk = [phase |-> "idle"]
    /\ rr = [phase |-> "idle"]
    /\ ck = [phase |-> "idle"]
    /\ vr = [phase |-> "idle"]

IdleProbes ==
    /\ pq = [phase |-> "idle"]
    /\ sc = [phase |-> "idle"]
    /\ vq = [phase |-> "idle"]
    /\ IdleLaterProbes

InitVerify ==
    /\ MIN_SOURCES_FOR_VERDICT \in 1..MaxMinSources
    /\ CREDIBLE_DOMAINS \in AllowLists
    /\ pc = "off"
    /\ claim \in RawClaims
    /\ iteration = 0
    /\ evidence = <<>>
    /\ sufficient = FALSE
    /\ conflict = FALSE
    /\ top_k = RAG_TOP_K
    /\ use_current_only = FALSE
    /\ cross_encoder = FALSE
    /\ result = NoResult
    /\ fv_evidence = <<>>
    /\ decided = "(none)"
    /\ rerank_path = "none"
    /\ rerank_input = <<>>
    /\ threw_inner = FALSE
    /\ threw_outer = FALSE
    /\ rerank_output = <<>>
    /\ form_calls = 0
    /\ ended = NotEnded
    /\ saw_evidence = FALSE
    /\ http = [phase |-> "request", status |-> 0, detail |-> "(none)", out |-> <<>>]
    /\ review_store = EmptyStore
    /\ reviewers = <<>>

(***************************************************************************)
(* Search planner (services/search_planner.py).  A claim is the sequence   *)
(* of its words; a query is a sequence of words and quote marks.  The      *)
(* claims of the model hold no quote character, so the `quoted` branch of  *)
(* _extract_key_phrases is not taken.                                      *)
(***************************************************************************)
MaxClaimWords == 3   \* longest claim given to plan_queries, in words

LONG_WORD == "pneumonoultramicroscopicsilicovolcanoconiosis"
QUOTE == "\""

PlanWords == {"fact", "check", "Barack", "Obama", "obama", LONG_WORD}

\* len() of a word
WordLen(w) ==
    IF w = LONG_WORD THEN 45
    ELSE IF w = "Barack" THEN 6
    ELSE IF w \in {"Obama", "obama", "check"} THEN 5
    ELSE IF w = "fact" THEN 4
    ELSE 1

\* len() of words joined by single spaces
RECURSIVE TextLen(_)
TextLen(ws) ==
    IF ws = <<>> THEN 0
    ELSE IF Len(ws) = 1 THEN WordLen(ws[1])
    ELSE WordLen(Head(ws)) + 1 + TextLen(Tail(ws))

\* [A-Z][a-z]+
IsCapitalized(w) == w \in {"Barack", "Obama"}

\* re.IGNORECASE
LowerWord(w) ==
    IF w = "Barack" THEN "barack" ELSE IF w = "Obama" THEN "obama" ELSE w

\* re.findall(r'\b[A-Z][a-z]+(?:\s+[A-Z][a-z]+)+\b', claim)
RECURSIVE CapitalizedPhrases(_)
CapitalizedPhrases(ws) ==
    IF ws = <<>> THEN <<>>
    ELSE LET n == Max({k \in 0..Len(ws) : \A i \in 1..k : IsCapitalized(ws[i])})
         IN  IF n >= 2
             THEN <<SubSeq(ws, 1, n)>> \o CapitalizedPhrases(SubSeq(ws, n + 1, Len(ws)))
             ELSE CapitalizedPhrases(Tail(ws))

\* lines 30-38: the 2-word and 3-word phrases, in the order of the loop
RECURSIVE WordPhrases(_, _)
WordPhrases(ws, i) ==
    IF i > Len(ws) - 1 THEN <<>>
    ELSE <<SubSeq(ws, i, i + 1)>>
             \o (IF i + 2 <= Len(ws) THEN <<SubSeq(ws, i, i + 2)>> ELSE <<>>)
             \o WordPhrases(ws, i + 1)

\* max(phrases, key=len): the first of the longest
LongestFirst(phrases) ==
    LET longest == Max({TextLen(phrases[i]) : i \in 1..Len(phrases)})
    IN  phrases[Min({i \in 1..Len(phrases) : TextLen(phrases[i]) = longest})]

_extract_key_phrases(claim_words) ==
    IF CapitalizedPhrases(claim_words) # <<>>
    THEN <<LongestFirst(CapitalizedPhrases(claim_words))>>
    ELSE IF WordPhrases(claim_words, 1) # <<>>
         THEN <<LongestFirst(WordPhrases(claim_words, 1))>>
    ELSE <<>>

Quoted(phrase) == <<QUOTE>> \o phrase \o <<QUOTE>>

\* re.sub(re.escape(phrase), f'"{phrase}"', claim, flags=re.IGNORECASE)
RECURSIVE QuotePhraseIn(_, _)
QuotePhraseIn(ws, phrase) ==
    IF ws = <<>> THEN <<>>
    ELSE IF /\ Len(ws) >= Len(phrase)
            /\ \A i \in 1..Len(phrase) : LowerWord(ws[i]) = LowerWord(phrase[i])
         THEN Quoted(phrase) \o QuotePhraseIn(SubSeq(ws, Len(phrase) + 1, Len(ws)), phrase)
    ELSE <<Head(ws)>> \o QuotePhraseIn(Tail(ws), phrase)

\* claim[:77].rsplit(" ", 1)[0] if " " in claim[:77] else claim[:77]
ShortVersion(claim_words) ==
    LET fitting == {m \in 1..(Len(claim_words) - 1) :
                      TextLen(SubSeq(claim_words, 1, m)) <= 76}
    IN  IF fitting # {} THEN SubSeq(claim_words, 1, Max(fitting))
        ELSE IF TextLen(claim_words) <= 77 THEN claim_words
        ELSE <<"(the first 77 characters)">>

InList(q, queries) == \E i \in 1..Len(queries) : queries[i] = q

AppendIfNew(queries, q) == IF InList(q, queries) THEN queries ELSE Append(queries, q)

plan_queries(claim_words) ==
    IF claim_words = <<>> THEN <<>>
    ELSE
    LET key_phrases == _extract_key_phrases(claim_words)
        has_phrase == key_phrases # <<>>
        step1 == IF has_phrase THEN <<QuotePhraseIn(claim_words, key_phrases[1])>>
                 ELSE <<claim_words>>
        step2 == IF has_phrase
                 THEN Append(step1, <<"fact", "check">> \o Quoted(key_phrases[1]))
                 ELSE Append(step1, <<"fact", "check">> \o claim_words)
        step3 == IF has_phrase /\ TextLen(key_phrases[1]) > 10
                 THEN Append(step2, Quoted(key_phrases[1]))
                 ELSE step2
        step4 == IF TextLen(claim_words) > 80
                 THEN AppendIfNew(step3, ShortVersion(claim_words))
                 ELSE step3
        debunk == IF has_phrase THEN Quoted(key_phrases[1]) \o <<"debunk">>
                  ELSE Quoted(claim_words) \o <<"debunk">>
        step5 == IF Len(step4) < 4 THEN AppendIfNew(step4, debunk) ELSE step4
    IN  SubSeq(step5, 1, Min({4, Len(step5)}))

InitPlan ==
    \E ws \in SeqsUpTo(PlanWords, MaxClaimWords) :
        pq = [phase |-> "input", claim |-> ws, queries |-> <<>>]

PlanQueries ==
    /\ pq.phase = "input"
    /\ pq' = [pq EXCEPT !.phase = "output", !.queries = plan_queries(pq.claim)]
    /\ UNCHANGED <<sc, vq, tk, rr, ck, vr>>
    /\ UNCHANGED <<vvars, dvars, rvars, hvars>>

(***************************************************************************)
(* form_verdict on evidence lists of free length and credibility.          *)
(***************************************************************************)
MaxFormLen == 11   \* longest evidence list given to form_verdict

\* the i-th item: on bbc.com when on_allowlist, else on another domain
FormItem(i, on_allowlist) ==
    [url |-> IF on_allowlist
             THEN (IF i % 3 = 0 THEN URL_BBC_STORY
                   ELSE IF i % 3 = 1 THEN URL_WWW_BBC ELSE URL_UPPER_BBC)
             ELSE (IF i % 2 = 0 THEN URL_BLOG ELSE URL_HOME),
     source |-> "tavily", stance |-> STANCE_SUPPORTS]

InitForm ==
    /\ CREDIBLE_DOMAINS = {<<"bbc.com">>}
    /\ \E pattern \in SeqsUpTo(BOOLEAN, MaxFormLen) :
          sc = [phase |-> "input", pattern |-> pattern,
                ev |-> [i \in 1..Len(pattern) |-> FormItem(i, pattern[i])],
                citations |-> <<>>]

FormCitations ==
    /\ sc.phase = "input"
    /\ sc' = [sc EXCEPT !.phase = "output",
                        !.citations = form_verdict(sc.ev, TRUE, FALSE, "text").citations]
    /\ UNCHANGED <<pq, vq, tk, rr, ck, vr>>
    /\ UNCHANGED <<vvars, dvars, rvars, hvars>>

(***************************************************************************)
(* vector_store.query: the number of results it asks the index for.        *)
(***************************************************************************)
MaxCollectionSize == 6   \* largest coll.count() of the queried collection
MaxTopK == 8             \* largest top_k given to query

\* line 47: min(top_k, coll.count() or 1)
n_results(k, count) == Min({k, IF count = 0 THEN 1 ELSE count})

\* lines 47-74.  An index without elements asked for one result answers
\* with empty lists or raises, depending on the Chroma release.
Query ==
    /\ vq.phase = "input"
    /\ \E index_raises \in BOOLEAN :
          /\ index_raises => (vq.count = 0 /\ n_results(vq.k, vq.count) >= 1)
          /\ vq' = [vq EXCEPT
                      !.phase = "output",
                      !.asked = (n_results(vq.k, vq.count) >= 1),
                      !.n_results = n_results(vq.k, vq.count),
                      !.raised = index_raises,
                      !.returned = IF n_results(vq.k, vq.count) < 1 \/ index_raises THEN 0
                                   ELSE Min({n_results(vq.k, vq.count), vq.count})]
    /\ UNCHANGED <<pq, sc, tk, rr, ck, vr>>
    /\ UNCHANGED <<vvars, dvars, rvars, hvars>>

(***************************************************************************)
(* POST /review/{claim_id} served by concurrent threads                    *)
(* (main.py review_claim, review_store.submit_review).                     *)
(***************************************************************************)
MaxReviewers == 3   \* concurrent review requests

UNKNOWN_ID == "0000000000000000_1700000000"

ReviewIds == {CLAIM_ID, UNKNOWN_ID}

PendingItem ==
    [claim |-> VALID_CLAIM, verdict |-> MIXED_DISPUTED, reasoning |-> R_LLM,
     citations |-> <<>>]

IdleReviewer == [at |-> "idle", claim_id |-> "(none)", status |-> 0]

\* a request arrives; FastAPI runs the handler in a worker thread
ReviewReceive(t) ==
    /\ reviewers[t].at = "idle"
    /\ \E id \in ReviewIds :
          reviewers' = [reviewers EXCEPT ![t] = [at |-> "check", claim_id |-> id,
                                                 status |-> 0]]
    /\ UNCHANGED <<http, review_store>>
    /\ UNCHANGED <<vvars, dvars, rvars, ovars>>

\* submit_review lines 48-49, and lines 120-121 of review_claim
SubmitCheck(t) ==
    /\ reviewers[t].at = "check"
    /\ reviewers' = [reviewers EXCEPT ![t] =
                        IF reviewers[t].claim_id \notin PendingIds(review_store)
                        THEN [@ EXCEPT !.at = "done", !.status = 404]
                        ELSE [@ EXCEPT !.at = "pop"]]
    /\ UNCHANGED <<http, review_store>>
    /\ UNCHANGED <<vvars, dvars, rvars, ovars>>

\* submit_review lines 50-55, and line 122 of review_claim; dict.pop of a
\* missing key raises KeyError, which the server answers with 500
SubmitPop(t) ==
    /\ reviewers[t].at = "pop"
    /\ IF reviewers[t].claim_id \in PendingIds(review_store)
       THEN /\ review_store' = pop(review_store, reviewers[t].claim_id)
            /\ reviewers' = [reviewers EXCEPT ![t] = [@ EXCEPT !.at = "done",
                                                               !.status = 200]]
       ELSE /\ reviewers' = [reviewers EXCEPT ![t] = [@ EXCEPT !.at = "done",
                                                               !.status = 500]]
            /\ UNCHANGED review_store
    /\ UNCHANGED <<http>>
    /\ UNCHANGED <<vvars, dvars, rvars, ovars>>

(***************************************************************************)
(* The top_k of the agentic loop for a configured RAG_TOP_K: the loop of   *)
(* run_verification with each iteration reduced to its outcome.            *)
(***************************************************************************)
MaxRagTopK == 24   \* RAG_TOP_K is configured in 1..MaxRagTopK

IterationOutcomes == {"empty", "refine", "exit"}

\* lines 87-124, one iteration: the retriever is called with the current
\* top_k; the merged evidence is empty, or it is evaluated and the loop goes
\* on, or the loop is left
TopKIteration ==
    /\ tk.phase = "loop"
    /\ \E outcome \in IterationOutcomes :
          tk' = [tk EXCEPT
                   !.calls = Append(tk.calls, tk.top_k),
                   !.top_k = IF outcome = "refine"
                                \/ (outcome = "empty"
                                    /\ tk.iteration < AGENTIC_LOOP_MAX_ITER - 1)
                             THEN Widen(tk.top_k) ELSE tk.top_k,
                   !.iteration = IF outcome = "exit" THEN tk.iteration
                                 ELSE tk.iteration + 1,
                   !.phase = IF outcome = "exit"
                                \/ AfterLoop(tk.iteration + 1) = "form"
                             THEN "done" ELSE "loop"]
    /\ UNCHANGED <<pq, sc, vq, rr, ck, vr>>
    /\ UNCHANGED <<vvars, dvars, rvars, hvars>>

(***************************************************************************)
(* The rerank step of an iteration for a configured RERANK_TOP_K that the  *)
(* merged list can exceed.                                                 *)
(***************************************************************************)
MaxRerankTopK == 2   \* RERANK_TOP_K is configured in 1..MaxRerankTopK

\* lines 108-113: rerank_evidence(claim, evidence, top_k=RERANK_TOP_K) inside
\* its try/except
RerankStep ==
    /\ rr.phase = "merged"
    /\ \E outcome \in RerankOutcomes :
       \E relevance_scores \in (IF outcome = "scored"
                                THEN [1..Len(rr.evidence) -> 0..MaxRel] ELSE {<<>>}) :
          rr' = [rr EXCEPT
                   !.phase = "reranked",
                   !.path = PathOf(outcome),
                   !.evidence = IF outcome = "raised" THEN rr.evidence
                                ELSE rerank(rr.evidence, rr.RERANK_TOP_K, outcome,
                                            relevance_scores)]
    /\ UNCHANGED <<pq, sc, vq, tk, ck, vr>>
    /\ UNCHANGED <<vvars, dvars, rvars, hvars>>

(***************************************************************************)
(* _chunk_text (jobs/refresh_kb.py) on bounded texts.  A text is a         *)
(* sequence of characters; positions are 0-based as in the source.         *)
(***************************************************************************)
MaxTextLen == 5      \* longest text given to _chunk_text
MaxChunkChars == 3   \* largest max_chars
MaxOverlap == 4      \* largest overlap

Chars == {"a", ".", " "}

\* text[a:b]
Slice(text, a, b) == SubSeq(text, a + 1, b)

\* str.strip()
RECURSIVE StripText(_)
StripText(text) ==
    IF text = <<>> THEN text
    ELSE IF Head(text) = " " THEN StripText(Tail(text))
    ELSE IF text[Len(text)] = " " THEN StripText(SubSeq(text, 1, Len(text) - 1))
    ELSE text

\* text.rfind(". ", start, stop)
rfind_dot_space(text, start, stop) ==
    LET found == {i \in start..(stop - 2) : text[i + 1] = "." /\ text[i + 2] = " "}
    IN  IF found = {} THEN -1 ELSE Max(found)

\* lines 57-61: the end of the window that starts at `start`
WindowEnd(text, max_chars, start) ==
    LET end == Min({start + max_chars, Len(text)})
        last_dot == IF end < Len(text) THEN rfind_dot_space(text, start, end + 1)
                    ELSE -1
    IN  IF last_dot # -1 THEN last_dot + 1 ELSE end

\* a step that stays where it is when the overlap covers the window
NextStartStays(start, end, overlap) ==
    IF overlap < end - start THEN end - overlap ELSE start

\* line 65
NextStart(start, end, overlap) ==
    IF overlap < end - start THEN end - overlap ELSE end

\* lines 46-55: the early returns, else the loop is entered
ChunkEnter ==
    /\ ck.phase = "input"
    /\ ck' = IF ck.text = <<>> \/ ck.max_chars < 1 \/ StripText(ck.text) = <<>>
             THEN [ck EXCEPT !.phase = "done"]
             ELSE IF Len(StripText(ck.text)) <= ck.max_chars
             THEN [ck EXCEPT !.phase = "done", !.text = StripText(ck.text),
                             !.chunks = <<StripText(ck.text)>>]
             ELSE [ck EXCEPT !.phase = "loop", !.text = StripText(ck.text)]
    /\ UNCHANGED <<pq, sc, vq, tk, rr, vr>>
    /\ UNCHANGED <<vvars, dvars, rvars, hvars>>

\* lines 56-67: one pass of the while loop
ChunkPass ==
    /\ ck.phase = "loop"
    /\ LET end == WindowEnd(ck.text, ck.max_chars, ck.start)
           chunk == StripText(Slice(ck.text, ck.start, end))
           start == NextStart(ck.start, end, ck.overlap)
       IN  ck' = [ck EXCEPT
                    !.chunks = IF chunk # <<>> THEN Append(ck.chunks, chunk)
                               ELSE ck.chunks,
                    !.prev_start = ck.start,
                    !.start = start,
                    !.phase = IF start >= Len(ck.text) THEN "done" ELSE "loop"]
    /\ UNCHANGED <<pq, sc, vq, tk, rr, vr>>
    /\ UNCHANGED <<vvars, dvars, rvars, hvars>>

(***************************************************************************)
(* A sequence of POST /verify and POST /review requests against the review *)
(* store, each verification reduced to whether its result is flagged.      *)
(***************************************************************************)
MaxSeconds == 2    \* time.time() runs over the epoch seconds 0..MaxSeconds
MaxRequests == 3   \* POST /verify requests served

OTHER_CLAIM == "Vitamin D prevents the common cold."

RequestClaims == {"", UNTIDY_CLAIM, VALID_CLAIM, OTHER_CLAIM, LONG_CLAIM}

\* main.py lines 67-68: sha256(claim)[:16], "_", int(time.time()); the digest
\* is a function of the normalized claim and differs between the claims here
ClaimIdOf(norm_claim, now) == [claim_hash |-> <<"sha256", norm_claim>>, time |-> now]

\* main.py lines 62-90 for one request whose run_verification result carries
\* requires_review or does not
VerifyServed ==
    /\ vr.phase = "serving"
    /\ vr.served < MaxRequests
    /\ \E raw_claim \in RequestClaims, requires_review \in BOOLEAN :
          IF validate(raw_claim).ok /\ requires_review
          THEN /\ review_store' =
                     add_pending(review_store,
                                 ClaimIdOf(normalize(raw_claim), vr.now),
                                 [claim |-> normalize(raw_claim),
                                  verdict |-> NOT_ENOUGH_EVIDENCE,
                                  reasoning |-> R_FALLBACK, citations |-> <<>>])
               /\ vr' = [vr EXCEPT !.served = vr.served + 1,
                                   !.flagged = vr.flagged + 1]
          ELSE /\ vr' = [vr EXCEPT !.served = vr.served + 1]
               /\ UNCHANGED review_store
    /\ UNCHANGED <<http, reviewers>>
    /\ UNCHANGED <<pq, sc, vq, tk, rr, ck>>
    /\ UNCHANGED <<vvars, dvars, rvars>>

\* main.py lines 114-122 for a pending claim_id, served alone
ReviewServed ==
    /\ vr.phase = "serving"
    /\ \E claim_id \in PendingIds(review_store) :
          review_store' = pop(review_store, claim_id)
    /\ vr' = [vr EXCEPT !.flagged = vr.flagged - 1]
    /\ UNCHANGED <<http, reviewers>>
    /\ UNCHANGED <<pq, sc, vq, tk, rr, ck>>
    /\ UNCHANGED <<vvars, dvars, rvars>>

\* the clock reaches the next epoch second
ClockTick ==
    /\ vr.phase = "serving"
    /\ vr.now < MaxSeconds
    /\ vr' = [vr EXCEPT !.now = vr.now + 1]
    /\ UNCHANGED <<http, review_store, reviewers>>
    /\ UNCHANGED <<pq, sc, vq, tk, rr, ck>>
    /\ UNCHANGED <<vvars, dvars, rvars>>

(***************************************************************************)
(* Specifications.                                                         *)
(***************************************************************************)
Init == InitVerification /\ IdleDecide /\ IdleRefresh /\ IdleHttp /\ IdleProbes

Next ==
    \/ StartRun
    \/ GatherEvidence
    \/ Rerank
    \/ Evaluate
    \/ FormVerdict
    \/ PipelineException

Spec == Init /\ [][Next]_vars

DecideInit == IdleVerification /\ InitDecide /\ IdleRefresh /\ IdleHttp /\ IdleProbes

DecideNext == Decide

SpecDecide == DecideInit /\ [][DecideNext]_vars

RefreshInit == IdleVerification /\ IdleDecide /\ InitRefresh /\ IdleHttp /\ IdleProbes

RefreshNext ==
    \/ RefreshGather
    \/ RefreshDeleteTemp
    \/ RefreshBatch
    \/ CloneGetAll
    \/ CloneDeleteDest
    \/ CloneCopy
    \/ CloneDeleteSrc
    \/ ReaderQuery

SpecRefresh == RefreshInit /\ [][RefreshNext]_vars

VerifyInit == InitVerify /\ IdleDecide /\ IdleRefresh /\ IdleProbes

VerifyNext ==
    \/ VerifyReceive
    \/ StartRun
    \/ GatherEvidence
    \/ Rerank
    \/ Evaluate
    \/ FormVerdict
    \/ PipelineException
    \/ VerifyRespond

SpecVerify == VerifyInit /\ [][VerifyNext]_vars

PlanInit ==
    /\ IdleVerification /\ IdleDecide /\ IdleRefresh /\ IdleHttp
    /\ InitPlan
    /\ sc = [phase |-> "idle"]
    /\ vq = [phase |-> "idle"]
    /\ IdleLaterProbes

PlanNext == PlanQueries

SpecPlan == PlanInit /\ [][PlanNext]_vars

FormInit ==
    /\ MIN_SOURCES_FOR_VERDICT = 1
    /\ pc = "off"
    /\ claim = ""
    /\ iteration = 0
    /\ evidence = <<>>
    /\ sufficient = FALSE
    /\ conflict = FALSE
    /\ top_k = RAG_TOP_K
    /\ use_current_only = FALSE
    /\ cross_encoder = FALSE
    /\ result = NoResult
    /\ fv_evidence = <<>>
    /\ decided = "(none)"
    /\ rerank_path = "none"
    /\ rerank_input = <<>>
    /\ threw_inner = FALSE
    /\ threw_outer = FALSE
    /\ rerank_output = <<>>
    /\ form_calls = 0
    /\ ended = NotEnded
    /\ saw_evidence = FALSE
    /\ IdleDecide /\ IdleRefresh /\ IdleHttp
    /\ InitForm
    /\ pq = [phase |-> "idle"]
    /\ vq = [phase |-> "idle"]
    /\ IdleLaterProbes

FormNext == FormCitations

SpecForm == FormInit /\ [][FormNext]_vars

QueryInit ==
    /\ IdleVerification /\ IdleDecide /\ IdleRefresh /\ IdleHttp
    /\ pq = [phase |-> "idle"]
    /\ sc = [phase |-> "idle"]
    /\ IdleLaterProbes
    /\ \E count \in 0..MaxCollectionSize, k \in 0..MaxTopK :
          vq = [phase |-> "input", count |-> count, k |-> k, asked |-> FALSE,
                n_results |-> 0, raised |-> FALSE, returned |-> 0]

QueryNext == Query

SpecQuery == QueryInit /\ [][QueryNext]_vars

ReviewInit ==
    /\ IdleVerification /\ IdleDecide /\ IdleRefresh /\ IdleProbes
    /\ http = NoRequest
    /\ review_store \in {EmptyStore, add_pending(EmptyStore, CLAIM_ID, PendingItem)}
    /\ reviewers = [t \in 1..MaxReviewers |-> IdleReviewer]

ReviewNext ==
    \E t \in 1..MaxReviewers :
        \/ ReviewReceive(t)
        \/ SubmitCheck(t)
        \/ SubmitPop(t)

SpecReview == ReviewInit /\ [][ReviewNext]_vars

\* line 83: top_k = RAG_TOP_K
TopKInit ==
    /\ IdleVerification /\ IdleDecide /\ IdleRefresh /\ IdleHttp
    /\ pq = [phase |-> "idle"]
    /\ sc = [phase |-> "idle"]
    /\ vq = [phase |-> "idle"]
    /\ rr = [phase |-> "idle"]
    /\ ck = [phase |-> "idle"]
    /\ vr = [phase |-> "idle"]
    /\ \E configured \in 1..MaxRagTopK :
          tk = [phase |-> "loop", RAG_TOP_K |-> configured, iteration |-> 0,
                top_k |-> configured, calls |-> <<>>]

TopKNext == TopKIteration

SpecTopK == TopKInit /\ [][TopKNext]_vars

\* line 101: the list the merge hands to the rerank step
RerankInit ==
    /\ IdleVerification /\ IdleDecide /\ IdleRefresh /\ IdleHttp
    /\ pq = [phase |-> "idle"]
    /\ sc = [phase |-> "idle"]
    /\ vq = [phase |-> "idle"]
    /\ tk = [phase |-> "idle"]
    /\ ck = [phase |-> "idle"]
    /\ vr = [phase |-> "idle"]
    /\ \E raw_web \in SeqsUpTo(WebUrls, MaxWeb), raw_rag \in SeqsUpTo(RagDocs, MaxRag),
          configured \in 1..MaxRerankTopK :
          /\ _merge_and_dedupe(fetch_evidence(raw_web), retrieve(raw_rag)) # <<>>
          /\ rr = [phase |-> "merged", RERANK_TOP_K |-> configured, path |-> "none",
                   evidence |-> _merge_and_dedupe(fetch_evidence(raw_web),
                                                  retrieve(raw_rag))]

RerankNext == RerankStep

SpecRerank == RerankInit /\ [][RerankNext]_vars

ChunkInit ==
    /\ IdleVerification /\ IdleDecide /\ IdleRefresh /\ IdleHttp
    /\ pq = [phase |-> "idle"]
    /\ sc = [phase |-> "idle"]
    /\ vq = [phase |-> "idle"]
    /\ tk = [phase |-> "idle"]
    /\ rr = [phase |-> "idle"]
    /\ vr = [phase |-> "idle"]
    /\ \E text \in SeqsUpTo(Chars, MaxTextLen), max_chars \in 0..MaxChunkChars,
          overlap \in 0..MaxOverlap :
          ck = [phase |-> "input", text |-> text, max_chars |-> max_chars,
                overlap |-> overlap, start |-> 0, prev_start |-> -1,
                chunks |-> <<>>]

PendingInit ==
    /\ IdleVerification /\ IdleDecide /\ IdleRefresh /\ IdleHttp
    /\ pq = [phase |-> "idle"]
    /\ sc = [phase |-> "idle"]
    /\ vq = [phase |-> "idle"]
    /\ tk = [phase |-> "idle"]
    /\ rr = [phase |-> "idle"]
    /\ ck = [phase |-> "idle"]
    /\ vr = [phase |-> "serving", now |-> 0, served |-> 0, flagged |-> 0]

PendingNext == VerifyServed \/ ReviewServed \/ ClockTick

SpecPending == PendingInit /\ [][PendingNext]_vars

ChunkNext == ChunkEnter \/ ChunkPass

\* the function runs to its return once called
SpecChunk == ChunkInit /\ [][ChunkNext]_vars /\ WF_vars(ChunkNext)

(***************************************************************************)
(* Properties of run_verification (checked under Spec).                    *)
(***************************************************************************)

\* C1: every citation of a returned result carries the url of some item of
\* the evidence list that was passed to form_verdict.
C1_CitationsFromEvidence ==
    pc = "done" =>
        \A i \in 1..Len(result.citations) :
            \E j \in 1..Len(fv_evidence) : result.citations[i].url = fv_evidence[j].url

\* a returned result citing two of three evidence items
C1_Witness ==
    /\ pc = "done"
    /\ Len(fv_evidence) = 3
    /\ Len(result.citations) = 2

\* C2: a returned Supported or Refuted verdict carries at least the
\* configured MIN_SOURCES_FOR_VERDICT citations, for every configured value
\* and every allowlist.
C2_EnoughCitations ==
    (pc = "done" /\ result.verdict \in {SUPPORTED, REFUTED}) =>
        Len(result.citations) >= MIN_SOURCES_FOR_VERDICT

\* C3: a returned Mixed / Disputed verdict comes from evidence holding at
\* least one supports item and at least one refutes item.
C3_MixedHasBothStances ==
    (pc = "done" /\ result.verdict = MIXED_DISPUTED) =>
        /\ \E i \in 1..Len(fv_evidence) : fv_evidence[i].stance = STANCE_SUPPORTS
        /\ \E j \in 1..Len(fv_evidence) : fv_evidence[j].stance = STANCE_REFUTES

\* a returned Mixed / Disputed verdict
C3_Witness ==
    /\ pc = "done"
    /\ result.verdict = MIXED_DISPUTED
    /\ Len(fv_evidence) >= 2

\* C4: no two citations of a returned result have the same url.
C4_DistinctCitationUrls ==
    pc = "done" =>
        \A i \in 1..Len(result.citations), j \in 1..Len(result.citations) :
            i # j => result.citations[i].url # result.citations[j].url

\* a returned result with three citations, one of them a url that both the
\* web search and the vector store can return
C4_Witness ==
    /\ pc = "done"
    /\ Len(result.citations) >= 3
    /\ \E i \in 1..Len(result.citations) : result.citations[i].url = URL_WWW_BBC

\* C6 as stated: after the rerank step of any iteration no domain (host
\* lowercased, leading www. stripped) is on more than 2 evidence items, and
\* on more than 2 returned citations.
C6_CapAfterEveryRerank ==
    LET capped(q) ==
            \A d \in {_domain_from_url(q[i].url) : i \in 1..Len(q)} :
                Cardinality({i \in 1..Len(q) : _domain_from_url(q[i].url) = d}) <= 2
    IN  /\ (pc = "evaluate" => capped(evidence))
        /\ (pc = "done" => capped(result.citations))

\* C6 amended: after a rerank step that took its scoring path (model
\* loaded, one score per item, nothing raised) no domain is on more than 2
\* evidence items, and on more than 2 citations of the verdict formed from
\* that evidence.
C6_CapAfterScoredRerank ==
    LET capped(q) ==
            \A d \in {_domain_from_url(q[i].url) : i \in 1..Len(q)} :
                Cardinality({i \in 1..Len(q) : _domain_from_url(q[i].url) = d}) <= 2
    IN  rerank_path = "scored" =>
            /\ (pc \in {"evaluate", "form"} => capped(evidence))
            /\ (pc = "done" => capped(result.citations))

\* three bbc.com items and one other went into a scoring rerank; two
\* bbc.com items and the other came out
C6_Witness ==
    /\ pc = "evaluate"
    /\ rerank_path = "scored"
    /\ Len(rerank_input) = 4
    /\ Cardinality({i \in 1..Len(rerank_input) :
                      _domain_from_url(rerank_input[i].url) = <<"bbc.com">>}) = 3
    /\ Len(evidence) = 3
    /\ Cardinality({i \in 1..Len(evidence) :
                      _domain_from_url(evidence[i].url) = <<"bbc.com">>}) = 2

\* C10 as stated: whenever any step of the loop or of verdict formation
\* threw, the returned result is the safe result without requires_review.
C10_AnyThrowGivesSafeResult ==
    (pc = "done" /\ (threw_inner \/ threw_outer)) =>
        /\ result.verdict = NOT_ENOUGH_EVIDENCE
        /\ result.reasoning = R_GENERIC
        /\ result.citations = <<>>
        /\ ~result.requires_review

\* C10 amended: run_verification always returns; when a step outside the
\* handlers of the web search, the retrieval and the rerank threw, it
\* returned Not Enough Evidence with the generic reasoning, no citation and
\* no requires_review.
C10_UnhandledThrowGivesSafeResult ==
    /\ pc \in {"start", "gather", "rerank", "evaluate", "form", "done"}
    /\ threw_outer =>
        /\ pc = "done"
        /\ result.verdict = NOT_ENOUGH_EVIDENCE
        /\ result.reasoning = R_GENERIC
        /\ result.citations = <<>>
        /\ ~result.requires_review

\* the outer handler ran after an agent had thrown inside the loop
C10_Witness ==
    /\ pc = "done"
    /\ threw_outer
    /\ threw_inner

\* C12 as stated: the loop runs at most AGENTIC_LOOP_MAX_ITER gather
\* iterations, no iteration starts after one that ended sufficient and not
\* conflicting, and a run on a non-empty claim has called form_verdict
\* exactly once when it returns.
C12_LoopBoundedFormOnce ==
    /\ pc \in {"gather", "rerank", "evaluate"} => iteration < AGENTIC_LOOP_MAX_ITER
    /\ (pc \in {"gather", "rerank", "evaluate"} /\ iteration > 0) =>
           ~(sufficient /\ ~conflict)
    /\ (pc = "done" /\ claim # "") => form_calls = 1

\* C12 amended: the loop runs at most AGENTIC_LOOP_MAX_ITER gather
\* iterations, no iteration starts after one that ended sufficient and not
\* conflicting, form_verdict is never called before the loop has ended nor
\* twice, and a run on a non-empty claim that did not end in the outer
\* exception handler has called it exactly once.
C12_LoopBoundedFormOnceUnlessRaised ==
    /\ pc \in {"gather", "rerank", "evaluate"} =>
           iteration < AGENTIC_LOOP_MAX_ITER /\ form_calls = 0
    /\ (pc \in {"gather", "rerank", "evaluate"} /\ iteration > 0) =>
           ~(sufficient /\ ~conflict)
    /\ form_calls <= 1
    /\ (pc = "done" /\ claim # "" /\ ~threw_outer) => form_calls = 1
    /\ (pc = "done" /\ threw_outer /\ form_calls = 1) => decided = "(none)"

\* the loop left at its second iteration, on sufficient evidence without
\* conflict, with form_verdict about to be called
C12_Witness ==
    /\ pc = "form"
    /\ iteration = 1
    /\ sufficient
    /\ ~conflict
    /\ form_calls = 0

C20_FormVerdictGetsRerankOutput ==
    LET unlabelled(ev) == [i \in 1..Len(ev) |-> [ev[i] EXCEPT !.stance = STANCE_UNSET]]
    IN  /\ (pc = "form" /\ rerank_path \in {"scored", "unchanged"}) =>
               unlabelled(evidence) = rerank_output
        /\ (pc = "done" /\ form_calls = 1 /\ ~threw_outer
               /\ rerank_path \in {"scored", "unchanged"}) =>
               unlabelled(fv_evidence) = rerank_output

\* form_verdict was given the three labelled items a scoring rerank returned
C20_Witness ==
    /\ pc = "done"
    /\ form_calls = 1
    /\ ~threw_outer
    /\ rerank_path = "scored"
    /\ Len(rerank_output) = 3
    /\ \A i \in 1..Len(fv_evidence) : fv_evidence[i].stance # STANCE_UNSET
    /\ \E i \in 1..Len(fv_evidence) : fv_evidence[i].stance = STANCE_SUPPORTS

\* C21: the first iteration calls the RAG retriever with top_k = RAG_TOP_K
\* and current_affairs_only = false; after an iteration that does not leave
\* the loop, the next iteration calls it with top_k = min(previous + 5, 20)
\* and current_affairs_only = true.
C21_WidenedRetry ==
    /\ []((pc = "gather" /\ iteration = 0) =>
             (top_k = RAG_TOP_K /\ ~use_current_only))
    /\ [][(pc \in {"gather", "evaluate"} /\ pc' = "gather") =>
             (top_k' = Min({top_k + 5, 20}) /\ use_current_only')]_vars

\* the third iteration is about to call the retriever, after an iteration
\* without evidence and one with evidence
C21_Witness ==
    /\ pc = "gather"
    /\ iteration = 2
    /\ saw_evidence
    /\ top_k = 20
    /\ use_current_only

\* C28: the sufficient and conflict flags run_verification passes to
\* form_verdict equal is_sufficient and has_conflict of the evidence list
\* passed with them.
C28_FlagsMatchEvidence ==
    pc = "form" =>
        /\ sufficient = is_sufficient(evidence)
        /\ conflict = has_conflict(evidence)

\* C30: inside form_verdict, apply_validation_rules returns the verdict,
\* the reasoning and the citation list it was given, so the verdict
\* run_verification returns is the one _decide_verdict gave.
C30_ValidationChangesNothing ==
    /\ pc = "form" =>
          \A llm \in LlmOutcomes :
              LET verdict == _decide_verdict(evidence, sufficient, conflict)
                  citations == _evidence_to_citations(evidence)
                  kept == SoftenCredibility(
                              citations,
                              filter_credible_citations(citations, CREDIBLE_DOMAINS))
                  reasoning == _generate_reasoning(evidence, llm)
                  allowed_urls == {evidence[i].url : i \in 1..Len(evidence)}
              IN  apply_validation_rules(verdict, reasoning, kept, allowed_urls)
                     = [verdict |-> verdict, reasoning |-> reasoning,
                        citations |-> kept]
    /\ (pc = "done" /\ form_calls = 1 /\ ~threw_outer) => result.verdict = decided

\* a Supported verdict whose citations are fewer than the evidence items and
\* fewer than the configured MIN_SOURCES_FOR_VERDICT
C30_Witness ==
    /\ pc = "done"
    /\ form_calls = 1
    /\ ~threw_outer
    /\ decided = SUPPORTED
    /\ result.verdict = SUPPORTED
    /\ Len(result.citations) < Len(fv_evidence)
    /\ Len(result.citations) < MIN_SOURCES_FOR_VERDICT

(***************************************************************************)
(* Properties of POST /verify (checked under SpecVerify).                  *)
(***************************************************************************)

\* C11: when the pipeline failed with an unexpected exception on a valid
\* claim, POST /verify answers 503 with the generic detail and no verdict.
C11_PipelineFailureGives503 ==
    (http.phase = "responded" /\ threw_outer) =>
        /\ http.status = 503
        /\ http.detail = DETAIL_503
        /\ "verdict" \notin DOMAIN http.out

C15_PlanHasNoDuplicates ==
    (pq.phase = "output" /\ pq.claim # <<>>) =>
        /\ Len(pq.queries) \in 1..4
        /\ \A i \in 1..Len(pq.queries), j \in 1..Len(pq.queries) :
               i # j => pq.queries[i] # pq.queries[j]

(***************************************************************************)
(* Property of form_verdict's credibility step (checked under SpecForm).   *)
(***************************************************************************)

C18_QueryClampsToSize ==
    (vq.phase = "output" /\ vq.k >= 1) =>
        /\ vq.count = 0 => (~vq.asked /\ ~vq.raised /\ vq.returned = 0)
        /\ vq.count > 0 => (vq.asked /\ vq.n_results = Min({vq.k, vq.count}))

(***************************************************************************)
(* Property of the review store (checked under SpecReview).                *)
(***************************************************************************)

\* C19: a pending record is gone once a submit_review for its claim_id has
\* returned found; of concurrent submit_review calls on one claim_id at most
\* one returns found (200), the others return not found (404), and none
\* fails with an error.
C19_OneReviewWins ==
    /\ \A t \in DOMAIN reviewers :
           reviewers[t].at = "done" => reviewers[t].status \in {200, 404}
    /\ \A t, u \in DOMAIN reviewers :
           (t # u /\ reviewers[t].status = 200 /\ reviewers[u].status = 200) =>
               reviewers[t].claim_id # reviewers[u].claim_id
    /\ \A t \in DOMAIN reviewers :
           reviewers[t].status = 200 =>
               reviewers[t].claim_id \notin PendingIds(review_store)

(***************************************************************************)
(* Property of the loop's top_k (checked under SpecTopK).                  *)
(***************************************************************************)

\* C29: across the iterations of one verification the top_k passed to the
\* RAG retriever never decreases, for every configured RAG_TOP_K >= 1.
C29_TopKNeverDecreases ==
    \A i \in 1..Len(tk.calls), j \in 1..Len(tk.calls) :
        i < j => tk.calls[i] <= tk.calls[j]

(***************************************************************************)
(* Property of the rerank step (checked under SpecRerank).                 *)
(***************************************************************************)

\* C23: after the rerank step of an iteration the evidence list has at most
\* RERANK_TOP_K items, on every return path of rerank.
C23_AtMostTopKAfterRerank ==
    rr.phase = "reranked" => Len(rr.evidence) <= rr.RERANK_TOP_K

(***************************************************************************)
(* Property of _chunk_text (checked under SpecChunk).                      *)
(***************************************************************************)

\* C24: for every non-empty text, every max_chars >= 1 and every
\* overlap >= 0, the loop of _chunk_text terminates, the window start grows
\* on every pass, and every chunk has at most max_chars characters.
C24_ChunkLoopTerminates ==
    /\ []((ck.phase \in {"loop", "done"} /\ ck.max_chars >= 1) =>
             /\ ck.start > ck.prev_start
             /\ \A i \in 1..Len(ck.chunks) : Len(ck.chunks[i]) <= ck.max_chars)
    /\ <>(ck.phase = "done")

\* the loop has returned after a pass whose overlap was at least the window,
\* with more than one chunk
C24_Witness ==
    /\ ck.phase = "done"
    /\ ck.prev_start >= 0
    /\ ck.overlap >= ck.max_chars
    /\ Len(ck.chunks) >= 2

(***************************************************************************)
(* Property of the pending records (checked under SpecPending).            *)
(***************************************************************************)

\* C27: after any sequence of POST /verify requests the number of pending
\* records equals the number of flagged verifications not yet reviewed.
C27_OneRecordPerFlaggedRun ==
    vr.phase = "serving" => Cardinality(PendingIds(review_store)) = vr.flagged

(***************************************************************************)
(* Property of _decide_verdict (checked under SpecDecide).                 *)
(***************************************************************************)

\* C5: _decide_verdict returns Not Enough Evidence when the evidence is
\* empty or sufficient is false; else Mixed / Disputed when conflict is
\* true; else Supported when some item supports and none refutes; else
\* Refuted when some item refutes and none supports; else Not Enough
\* Evidence; and never Unverifiable.
C5_DecidePrecedence ==
    dv.phase = "output" =>
        LET sup == \E i \in 1..Len(dv.ev) : dv.ev[i].stance = STANCE_SUPPORTS
            ref == \E i \in 1..Len(dv.ev) : dv.ev[i].stance = STANCE_REFUTES
        IN  /\ (dv.ev = <<>> \/ ~dv.sufficient) => dv.verdict = NOT_ENOUGH_EVIDENCE
            /\ (dv.ev # <<>> /\ dv.sufficient /\ dv.conflict) =>
                   dv.verdict = MIXED_DISPUTED
            /\ (dv.ev # <<>> /\ dv.sufficient /\ ~dv.conflict /\ sup /\ ~ref) =>
                   dv.verdict = SUPPORTED
            /\ (dv.ev # <<>> /\ dv.sufficient /\ ~dv.conflict /\ ref /\ ~sup) =>
                   dv.verdict = REFUTED
            /\ (dv.ev # <<>> /\ dv.sufficient /\ ~dv.conflict /\ (sup <=> ref)) =>
                   dv.verdict = NOT_ENOUGH_EVIDENCE
            /\ dv.verdict # UNVERIFIABLE

\* the conflict flag set on insufficient, non-empty evidence
C5_Witness ==
    /\ dv.phase = "output"
    /\ dv.ev # <<>>
    /\ dv.conflict
    /\ ~dv.sufficient
    /\ dv.verdict = NOT_ENOUGH_EVIDENCE

(***************************************************************************)
(* Properties of the refresh job (checked under SpecRefresh).              *)
(***************************************************************************)

\* C7: every reader query on current_affairs_24h during a refresh returns
\* the complete content the live collection had before the promotion or the
\* complete content it has after it.
C7_ReadersSeeOldOrNew ==
    read_obs.valid =>
        read_obs.docs \in {Content(rpre, COLLECTION_CURRENT_AFFAIRS_24H), rpost}

C25_ReadersLeaveStoreAlone == [][ReaderQuery => store' = store]_vars

\* C26: when run_refresh ends with an error, at whichever step, the live
\* collection holds exactly its pre-refresh content.
C26_ErrorKeepsLive ==
    (rpc = "idle" /\ rret = Raised) =>
        Content(store, COLLECTION_CURRENT_AFFAIRS_24H)
            = Content(rpre, COLLECTION_CURRENT_AFFAIRS_24H)

\* C8: when no seed query returns a result, run_refresh returns 0 without
\* a delete, an add or a clone, and the live and temp collections are as
\* they were.
C8_NoResultsNoWrites ==
    rnoresults =>
        /\ rpc = "idle"
        /\ rret = Returned(0)
        /\ rops = <<>>
        /\ Content(store, COLLECTION_CURRENT_AFFAIRS_24H)
               = Content(rpre, COLLECTION_CURRENT_AFFAIRS_24H)
        /\ store[REFRESH_TEMP_COLLECTION] = rpre[REFRESH_TEMP_COLLECTION]

\* a run without results, started with a populated live collection and a
\* temp collection that an aborted run left behind
C8_Witness ==
    /\ rnoresults
    /\ rret = Returned(0)
    /\ Content(store, COLLECTION_CURRENT_AFFAIRS_24H) # {}
    /\ Content(store, REFRESH_TEMP_COLLECTION) # {}

\* C9: when a batch fails, run_refresh ends with the error, never calls
\* clone_collection, and the live collection keeps its pre-refresh content.
C9_BatchFailureNoPromotion ==
    rfailed =>
        /\ rpc = "idle"
        /\ rret = Raised
        /\ \A i \in 1..Len(rops) : rops[i] \notin {"clone", "delete_live", "add_live"}
        /\ Content(store, COLLECTION_CURRENT_AFFAIRS_24H)
               = Content(rpre, COLLECTION_CURRENT_AFFAIRS_24H)

\* the second batch failed after the first had been written to the temp
\* collection
C9_Witness ==
    /\ rfailed
    /\ rret = Raised
    /\ rops = <<"delete_temp", "add_temp">>
    /\ Content(store, REFRESH_TEMP_COLLECTION) # {}
    /\ Content(store, COLLECTION_CURRENT_AFFAIRS_24H) = {OldDoc}

====
